---- MODULE Spec2Model ----
(***************************************************************************)
(* Read-through cache of src/src/app.py: the module-level dictionary       *)
(* `cache`, the function get_cached_data() and the request handler         *)
(* lambda_handler().  Every invocation of lambda_handler runs in one of    *)
(* the slots of Procs; the slots of one process share `cache`.  Each       *)
(* access to the shared dictionary is one step, so that invocations        *)
(* interleave between any two statements that touch it.                    *)
(*                                                                         *)
(* Spec interleaves the invocations freely; SeqSpec runs them one after    *)
(* the other.  The variables marked `history` record what happened and     *)
(* influence no variable of the program.                                   *)
(*                                                                         *)
(* The clock is quantised to whole seconds.  On whole seconds round(x, 2)  *)
(* (app.py:107) leaves every value as it is, so cache_age_seconds is the   *)
(* plain difference of two clock readings.                                 *)
(***************************************************************************)
EXTENDS Integers, Sequences, FiniteSets, TLC

\* ---- bounds of the model ----
NumProcs == 2
MaxTime == 3
MaxInvocations == 3
MaxItems == 1

\* CACHE_TTL = int(os.environ.get('CACHE_TTL_SECONDS', '300')), here 2 seconds
CACHE_TTL == 2

Procs == 1..NumProcs
Records == {"GPT-4", "Llama"}
ErrorTexts == {"ThrottlingException"}

\* A Python value that is None or a list of records.
None == [none |-> TRUE, list |-> <<>>]
List(s) == [none |-> FALSE, list |-> s]

\* Python truthiness of None-or-list: None and the empty list are falsy.
Truthy(v) == ~v.none /\ Len(v.list) > 0

\* The lists table.scan() can return in response['Items'].
RECURSIVE SeqsUpTo(_)
SeqsUpTo(n) ==
  IF n = 0 THEN {<<>>}
  ELSE LET shorter == SeqsUpTo(n - 1)
       IN shorter \cup {Append(s, r) : s \in {t \in shorter : Len(t) = n - 1}, r \in Records}
ScanResults == SeqsUpTo(MaxItems)

NoResponse ==
  [statusCode |-> 0, X_Cache_Status |-> "", X_Request_Id |-> 0,
   body |-> [keys |-> {}, data |-> <<>>, count |-> 0, cached |-> FALSE,
             cache_age_seconds |-> 0, error |-> "", request_id |-> 0]]

VARIABLES
  now,            \* time.time()
  cache,          \* the module-level dict: data, timestamp
  pc,             \* per slot: the statement the invocation is at
  current_time,   \* get_cached_data: current_time
  items,          \* items (get_cached_data's return value / local)
  is_cached,      \* lambda_handler: is_cached
  cache_age,      \* lambda_handler: the value put in cache_age_seconds
  request_id,     \* lambda_handler: request_id
  error_message,  \* lambda_handler: str(e) of the caught exception
  response,       \* the dict lambda_handler returned
  scans,          \* history: number of table.scan() calls of the invocation
  stores,         \* history: number of writes to cache by the invocation
  started,        \* history: number of invocations entered so far
  cacheAtStart,   \* history: cache when lambda_handler was last entered
  submitted,      \* history: the (items, current_time) pairs given to the cache update
  lastDataWriter, \* history: slot whose cache['data'] = items ran last (0: none)
  lastHit,        \* history: body of the last hit response since the last miss
  db_start,       \* get_cached_data: db_start, the clock when the scan is started
  fetchedAt,      \* history: the clock when the invocation's scan returned (line 56)
  dataOrigin,     \* history: current_time and db_start of the invocation whose records
                  \*          are in cache['data']
  snapTs,         \* history: the capture timestamp submitted with the records a hit read
  overtaken       \* history: another invocation ran line 67 after this one read
                  \*          current_time and before its own line 67

vars == <<now, cache, pc, current_time, items, is_cached, cache_age, request_id,
          error_message, response, scans, stores, started, cacheAtStart,
          submitted, lastDataWriter, lastHit, db_start, fetchedAt, dataOrigin, snapTs,
          overtaken>>

locals == <<current_time, items, is_cached, cache_age, request_id, error_message>>
history == <<scans, stores, started, cacheAtStart, submitted, lastDataWriter, lastHit>>
timing == <<db_start, fetchedAt, dataOrigin, snapTs, overtaken>>

NoHit == [present |-> FALSE, data |-> <<>>, count |-> 0, cache_age_seconds |-> 0]

\* cache = {'data': None, 'timestamp': 0}
CacheInit == [data |-> None, timestamp |-> 0]

Init ==
  /\ now = 0
  /\ cache = CacheInit
  /\ pc = [i \in Procs |-> "idle"]
  /\ current_time = [i \in Procs |-> 0]
  /\ items = [i \in Procs |-> None]
  /\ is_cached = [i \in Procs |-> FALSE]
  /\ cache_age = [i \in Procs |-> 0]
  /\ request_id = [i \in Procs |-> 0]
  /\ error_message = [i \in Procs |-> ""]
  /\ response = [i \in Procs |-> NoResponse]
  /\ scans = [i \in Procs |-> 0]
  /\ stores = [i \in Procs |-> 0]
  /\ started = 0
  /\ cacheAtStart = CacheInit
  /\ submitted = {}
  /\ lastDataWriter = 0
  /\ lastHit = NoHit
  /\ db_start = [i \in Procs |-> 0]
  /\ fetchedAt = [i \in Procs |-> 0]
  /\ dataOrigin = [ts |-> 0, start |-> 0]
  /\ snapTs = [i \in Procs |-> 0]
  /\ overtaken = [i \in Procs |-> FALSE]

\* Tick with a background sweep that drops the snapshot once it has expired.
Tick_Evict ==
  /\ now < MaxTime
  /\ now' = now + 1
  /\ cache' = IF ~cache.data.none /\ (now + 1 - cache.timestamp) >= CACHE_TTL
              THEN CacheInit ELSE cache
  /\ UNCHANGED <<timing, pc, locals, response, history>>

\* The wall clock advances between any two steps.
Tick ==
  /\ now < MaxTime
  /\ now' = now + 1
  /\ UNCHANGED <<timing, cache, pc, locals, response, history>>

\* lambda_handler is entered: request_id = context.request_id.  Invocations that
\* run at the same time have different identifiers: the caller of slot i passes i.
Start(i) ==
  /\ pc[i] = "idle"
  /\ started < MaxInvocations
  /\ started' = started + 1
  /\ request_id' = [request_id EXCEPT ![i] = i]
  /\ pc' = [pc EXCEPT ![i] = "L33"]
  /\ cacheAtStart' = cache
  /\ UNCHANGED <<timing, now, cache, current_time, items, is_cached, cache_age, error_message,
                 response, scans, stores, submitted, lastDataWriter, lastHit>>

\* current_time = time.time()
ReadClock(i) ==
  /\ pc[i] = "L33"
  /\ current_time' = [current_time EXCEPT ![i] = now]
  /\ pc' = [pc EXCEPT ![i] = "L36"]
  /\ UNCHANGED <<timing, now, cache, items, is_cached, cache_age, request_id, error_message,
                 response, history>>

\* CheckData without the test of cache['data']: only the age decides.
CheckData_AgeOnly(i) ==
  /\ pc[i] = "L36"
  /\ pc' = [pc EXCEPT ![i] = "L36b"]
  /\ UNCHANGED <<timing, now, cache, locals, response, history>>

\* if cache['data'] and ...: the left operand; a falsy value (None or an empty
\* list) short-circuits to the miss branch without reading the timestamp.
CheckData(i) ==
  /\ pc[i] = "L36"
  /\ pc' = [pc EXCEPT ![i] = IF Truthy(cache.data) THEN "L36b" ELSE "L54"]
  /\ db_start' = [db_start EXCEPT ![i] = IF Truthy(cache.data) THEN @ ELSE now]
  /\ UNCHANGED <<overtaken, fetchedAt, dataOrigin, snapTs, now, cache, locals, response, history>>

\* ... and (current_time - cache['timestamp']) < CACHE_TTL: the right operand
CheckAge(i) ==
  /\ pc[i] = "L36b"
  /\ pc' = [pc EXCEPT ![i] =
              IF (current_time[i] - cache.timestamp) < CACHE_TTL THEN "L43" ELSE "L54"]
  /\ db_start' = [db_start EXCEPT ![i] =
                    IF (current_time[i] - cache.timestamp) < CACHE_TTL THEN @ ELSE now]
  /\ UNCHANGED <<overtaken, fetchedAt, dataOrigin, snapTs, now, cache, locals, response, history>>

\* Hit with the timestamp refreshed on read (a sliding expiry).
Hit_Refresh(i) ==
  /\ pc[i] = "L43"
  /\ items' = [items EXCEPT ![i] = cache.data]
  /\ cache' = [cache EXCEPT !.timestamp = current_time[i]]
  /\ pc' = [pc EXCEPT ![i] = "L102"]
  /\ snapTs' = [snapTs EXCEPT ![i] = dataOrigin.ts]
  /\ overtaken' = [overtaken EXCEPT ![i] = FALSE]
  /\ UNCHANGED <<db_start, fetchedAt, dataOrigin, now, current_time, is_cached, cache_age, request_id,
                 error_message, response, history>>

\* return cache['data']: the hit branch reads the dictionary again
Hit(i) ==
  /\ pc[i] = "L43"
  /\ items' = [items EXCEPT ![i] = cache.data]
  /\ pc' = [pc EXCEPT ![i] = "L102"]
  /\ snapTs' = [snapTs EXCEPT ![i] = dataOrigin.ts]
  /\ overtaken' = [overtaken EXCEPT ![i] = FALSE]
  /\ UNCHANGED <<db_start, fetchedAt, dataOrigin, now, cache, current_time, is_cached, cache_age, request_id,
                 error_message, response, history>>

\* response = table.scan(); items = response.get('Items', []): the call returns
ScanOk(i) ==
  /\ pc[i] = "L54"
  /\ \E s \in ScanResults : items' = [items EXCEPT ![i] = List(s)]
  /\ scans' = [scans EXCEPT ![i] = @ + 1]
  /\ lastHit' = NoHit
  /\ pc' = [pc EXCEPT ![i] = "L66"]
  /\ fetchedAt' = [fetchedAt EXCEPT ![i] = now]
  /\ UNCHANGED <<overtaken, db_start, dataOrigin, snapTs, now, cache, current_time, is_cached, cache_age, request_id,
                 error_message, response, stores, started, cacheAtStart, submitted,
                 lastDataWriter>>

\* ScanFail with the cache dropped when the retrieval fails.
ScanFail_Invalidate(i) ==
  /\ pc[i] = "L54"
  /\ \E e \in ErrorTexts : error_message' = [error_message EXCEPT ![i] = e]
  /\ scans' = [scans EXCEPT ![i] = @ + 1]
  /\ lastHit' = NoHit
  /\ cache' = CacheInit
  /\ pc' = [pc EXCEPT ![i] = "L133"]
  /\ db_start' = [db_start EXCEPT ![i] = 0]
  /\ overtaken' = [overtaken EXCEPT ![i] = FALSE]
  /\ UNCHANGED <<fetchedAt, dataOrigin, snapTs, now, current_time, items, is_cached, cache_age, request_id,
                 response, stores, started, cacheAtStart, submitted, lastDataWriter>>

\* ScanFail with one more attempt before the failure is passed on.
ScanFail_Retry(i) ==
  /\ pc[i] = "L54"
  /\ \E e \in ErrorTexts :
       error_message' = [error_message EXCEPT ![i] = IF scans[i] = 0 THEN @ ELSE e]
  /\ scans' = [scans EXCEPT ![i] = @ + 1]
  /\ lastHit' = NoHit
  /\ pc' = [pc EXCEPT ![i] = IF scans[i] = 0 THEN "L54" ELSE "L133"]
  /\ db_start' = [db_start EXCEPT ![i] = IF scans[i] = 0 THEN @ ELSE 0]
  /\ overtaken' = [overtaken EXCEPT ![i] = IF scans[i] = 0 THEN @ ELSE FALSE]
  /\ UNCHANGED <<fetchedAt, dataOrigin, snapTs, now, cache, current_time, items, is_cached,
                 cache_age, request_id, response, stores, started, cacheAtStart, submitted,
                 lastDataWriter>>

\* response = table.scan() raises; control passes to `except Exception as e`
\* with error_message = str(e)
ScanFail(i) ==
  /\ pc[i] = "L54"
  /\ \E e \in ErrorTexts : error_message' = [error_message EXCEPT ![i] = e]
  /\ scans' = [scans EXCEPT ![i] = @ + 1]
  /\ lastHit' = NoHit
  /\ pc' = [pc EXCEPT ![i] = "L133"]
  /\ db_start' = [db_start EXCEPT ![i] = 0]
  /\ overtaken' = [overtaken EXCEPT ![i] = FALSE]
  /\ UNCHANGED <<fetchedAt, dataOrigin, snapTs, now, cache, current_time, items, is_cached, cache_age, request_id,
                 response, stores, started, cacheAtStart, submitted,
                 lastDataWriter>>

\* StoreData behind a lock held from line 66 to line 67: it waits while another
\* invocation is between the two statements.
StoreData_Locked(i) ==
  /\ pc[i] = "L66"
  /\ \A j \in Procs \ {i} : pc[j] # "L67"
  /\ cache' = [cache EXCEPT !.data = items[i]]
  /\ stores' = [stores EXCEPT ![i] = @ + 1]
  /\ submitted' = submitted \cup {<<items[i], current_time[i]>>}
  /\ lastDataWriter' = i
  /\ pc' = [pc EXCEPT ![i] = "L67"]
  /\ dataOrigin' = [ts |-> current_time[i], start |-> db_start[i]]
  /\ db_start' = [db_start EXCEPT ![i] = 0]
  /\ UNCHANGED <<overtaken, fetchedAt, snapTs, now, locals, response, scans, started, cacheAtStart, lastHit>>

\* StoreData that keeps records already in the cache: cache['data'] = cache['data'] or items
StoreData_KeepFirst(i) ==
  /\ pc[i] = "L66"
  /\ cache' = [cache EXCEPT !.data = IF Truthy(cache.data) THEN cache.data ELSE items[i]]
  /\ stores' = [stores EXCEPT ![i] = @ + 1]
  /\ submitted' = submitted \cup {<<items[i], current_time[i]>>}
  /\ lastDataWriter' = i
  /\ pc' = [pc EXCEPT ![i] = "L67"]
  /\ dataOrigin' = IF Truthy(cache.data) THEN dataOrigin
                   ELSE [ts |-> current_time[i], start |-> db_start[i]]
  /\ db_start' = [db_start EXCEPT ![i] = 0]
  /\ UNCHANGED <<overtaken, fetchedAt, snapTs, now, locals, response, scans, started, cacheAtStart, lastHit>>

\* cache['data'] = items
StoreData(i) ==
  /\ pc[i] = "L66"
  /\ cache' = [cache EXCEPT !.data = items[i]]
  /\ stores' = [stores EXCEPT ![i] = @ + 1]
  /\ submitted' = submitted \cup {<<items[i], current_time[i]>>}
  /\ lastDataWriter' = i
  /\ pc' = [pc EXCEPT ![i] = "L67"]
  /\ dataOrigin' = [ts |-> current_time[i], start |-> db_start[i]]
  /\ db_start' = [db_start EXCEPT ![i] = 0]
  /\ UNCHANGED <<overtaken, fetchedAt, snapTs, now, locals, response, scans, started, cacheAtStart, lastHit>>

\* cache['timestamp'] = current_time
\* A variant of line 67 that stamps the snapshot with the time the invocation
\* has been running instead of the clock reading of line 33.
StoreTimestamp_Elapsed(i) ==
  /\ pc[i] = "L67"
  /\ cache' = [cache EXCEPT !.timestamp = now - current_time[i]]
  /\ stores' = [stores EXCEPT ![i] = @ + 1]
  /\ pc' = [pc EXCEPT ![i] = "L102"]
  /\ fetchedAt' = [fetchedAt EXCEPT ![i] = 0]
  /\ overtaken' = [j \in Procs |->
                     \/ overtaken[j]
                     \/ j # i /\ pc[j] \in {"L36", "L36b", "L54", "L66", "L67"}]
  /\ UNCHANGED <<db_start, dataOrigin, snapTs, now, locals, response, scans, started, cacheAtStart, submitted,
                 lastDataWriter, lastHit>>

StoreTimestamp(i) ==
  /\ pc[i] = "L67"
  /\ cache' = [cache EXCEPT !.timestamp = current_time[i]]
  /\ stores' = [stores EXCEPT ![i] = @ + 1]
  /\ pc' = [pc EXCEPT ![i] = "L102"]
  /\ fetchedAt' = [fetchedAt EXCEPT ![i] = 0]
  /\ overtaken' = [j \in Procs |->
                     \/ overtaken[j]
                     \/ j # i /\ pc[j] \in {"L36", "L36b", "L54", "L66", "L67"}]
  /\ UNCHANGED <<db_start, dataOrigin, snapTs, now, locals, response, scans, started, cacheAtStart, submitted,
                 lastDataWriter, lastHit>>

\* is_cached = (time.time() - cache['timestamp']) < CACHE_TTL
MarkCached(i) ==
  /\ pc[i] = "L102"
  /\ is_cached' = [is_cached EXCEPT ![i] = (now - cache.timestamp) < CACHE_TTL]
  /\ pc' = [pc EXCEPT ![i] = "L107"]
  /\ UNCHANGED <<timing, now, cache, current_time, items, cache_age, request_id, error_message,
                 response, history>>

\* ReadAge measured from the start of this request instead of the capture.
ReadAge_SinceRequest(i) ==
  /\ pc[i] = "L107"
  /\ cache_age' = [cache_age EXCEPT ![i] = now - current_time[i]]
  /\ pc' = [pc EXCEPT ![i] = "L122"]
  /\ snapTs' = [snapTs EXCEPT ![i] = 0]
  /\ UNCHANGED <<overtaken, db_start, fetchedAt, dataOrigin, now, cache, current_time, items, is_cached, request_id, error_message,
                 response, history>>

\* 'cache_age_seconds': round(time.time() - cache['timestamp'], 2)
ReadAge(i) ==
  /\ pc[i] = "L107"
  /\ cache_age' = [cache_age EXCEPT ![i] = now - cache.timestamp]
  /\ pc' = [pc EXCEPT ![i] = "L122"]
  /\ snapTs' = [snapTs EXCEPT ![i] = 0]
  /\ UNCHANGED <<overtaken, db_start, fetchedAt, dataOrigin, now, cache, current_time, items, is_cached, request_id, error_message,
                 response, history>>

\* A JSON object: the keys it has and their values (a key it lacks has the
\* filler value of its column).
SuccessBody(i) ==
  [keys |-> {"data", "count", "cached", "cache_age_seconds"},
   data |-> items[i].list,
   count |-> Len(items[i].list),
   cached |-> is_cached[i],
   cache_age_seconds |-> cache_age[i],
   error |-> "",
   request_id |-> 0]

\* ErrorBody with str(e) as the error text.
ErrorBody_Leak(i) ==
  [keys |-> {"error", "request_id"},
   data |-> <<>>,
   count |-> 0,
   cached |-> FALSE,
   cache_age_seconds |-> 0,
   error |-> error_message[i],
   request_id |-> request_id[i]]

ErrorBody(i) ==
  [keys |-> {"error", "request_id"},
   data |-> <<>>,
   count |-> 0,
   cached |-> FALSE,
   cache_age_seconds |-> 0,
   error |-> "Internal Server Error",
   request_id |-> request_id[i]]

SuccessResponse(i) ==
  [statusCode |-> 200,
   X_Cache_Status |-> IF is_cached[i] THEN "HIT" ELSE "MISS",
   X_Request_Id |-> request_id[i],
   body |-> SuccessBody(i)]

ErrorResponse(i) ==
  [statusCode |-> 500,
   X_Cache_Status |-> "",
   X_Request_Id |-> request_id[i],
   body |-> ErrorBody(i)]

\* return {'statusCode': 200, ...}
RespondSuccess(i) ==
  /\ pc[i] = "L122"
  /\ response' = [response EXCEPT ![i] = SuccessResponse(i)]
  /\ lastHit' = IF scans[i] = 0
                THEN [present |-> TRUE, data |-> items[i].list,
                      count |-> Len(items[i].list), cache_age_seconds |-> cache_age[i]]
                ELSE lastHit
  /\ pc' = [pc EXCEPT ![i] = "done"]
  /\ UNCHANGED <<timing, now, cache, locals, scans, stores, started, cacheAtStart, submitted,
                 lastDataWriter>>

\* except Exception as e: ... return {'statusCode': 500, ...}
RespondError(i) ==
  /\ pc[i] = "L133"
  /\ response' = [response EXCEPT ![i] = ErrorResponse(i)]
  /\ pc' = [pc EXCEPT ![i] = "done"]
  /\ UNCHANGED <<timing, now, cache, locals, history>>

\* The caller has the response; the slot is free for the next invocation.
Return(i) ==
  /\ pc[i] = "done"
  /\ pc' = [pc EXCEPT ![i] = "idle"]
  /\ current_time' = [current_time EXCEPT ![i] = 0]
  /\ items' = [items EXCEPT ![i] = None]
  /\ is_cached' = [is_cached EXCEPT ![i] = FALSE]
  /\ cache_age' = [cache_age EXCEPT ![i] = 0]
  /\ request_id' = [request_id EXCEPT ![i] = 0]
  /\ error_message' = [error_message EXCEPT ![i] = ""]
  /\ response' = [response EXCEPT ![i] = NoResponse]
  /\ scans' = [scans EXCEPT ![i] = 0]
  /\ stores' = [stores EXCEPT ![i] = 0]
  /\ lastDataWriter' = IF lastDataWriter = i THEN 0 ELSE lastDataWriter
  /\ overtaken' = [overtaken EXCEPT ![i] = FALSE]
  /\ UNCHANGED <<db_start, fetchedAt, dataOrigin, snapTs, now, cache, started, cacheAtStart, submitted,
                 lastHit>>

Step(i) ==
  \/ Start(i)
  \/ ReadClock(i)
  \/ CheckData(i)
  \/ CheckAge(i)
  \/ Hit(i)
  \/ ScanOk(i)
  \/ ScanFail(i)
  \/ StoreData(i)
  \/ StoreTimestamp(i)
  \/ MarkCached(i)
  \/ ReadAge(i)
  \/ RespondSuccess(i)
  \/ RespondError(i)
  \/ Return(i)

Next ==
  \/ Tick
  \/ \E i \in Procs : Step(i)

Spec == Init /\ [][Next]_vars

\* The steps of a running invocation, from line 33 to its return statement.
Proceed(i) ==
  \/ ReadClock(i)
  \/ CheckData(i)
  \/ CheckAge(i)
  \/ Hit(i)
  \/ ScanOk(i)
  \/ ScanFail(i)
  \/ StoreData(i)
  \/ StoreTimestamp(i)
  \/ MarkCached(i)
  \/ ReadAge(i)
  \/ RespondSuccess(i)
  \/ RespondError(i)

\* The state of the process after a first invocation that failed at once: the
\* cache and every slot are as in Init, one invocation has been counted.
FairInit ==
  /\ now = 0
  /\ cache = CacheInit
  /\ pc = [i \in Procs |-> "idle"]
  /\ current_time = [i \in Procs |-> 0]
  /\ items = [i \in Procs |-> None]
  /\ is_cached = [i \in Procs |-> FALSE]
  /\ cache_age = [i \in Procs |-> 0]
  /\ request_id = [i \in Procs |-> 0]
  /\ error_message = [i \in Procs |-> ""]
  /\ response = [i \in Procs |-> NoResponse]
  /\ scans = [i \in Procs |-> 0]
  /\ stores = [i \in Procs |-> 0]
  /\ started = 1
  /\ cacheAtStart = CacheInit
  /\ submitted = {}
  /\ lastDataWriter = 0
  /\ lastHit = NoHit
  /\ db_start = [i \in Procs |-> 0]
  /\ fetchedAt = [i \in Procs |-> 0]
  /\ dataOrigin = [ts |-> 0, start |-> 0]
  /\ snapTs = [i \in Procs |-> 0]
  /\ overtaken = [i \in Procs |-> FALSE]

\* Every running invocation keeps being scheduled, and its table.scan() call
\* returns or raises.
FairSpec == FairInit /\ [][Next]_vars /\ \A i \in Procs : WF_vars(Proceed(i))

\* Invocations one after the other: lambda_handler is entered only when no
\* other invocation runs, so the steps of two invocations never interleave.
Quiet(i) == \A j \in Procs \ {i} : pc[j] = "idle"

SeqStart(i) == Quiet(i) /\ Start(i)

SeqStep(i) ==
  \/ SeqStart(i)
  \/ ReadClock(i)
  \/ CheckData(i)
  \/ CheckAge(i)
  \/ Hit(i)
  \/ ScanOk(i)
  \/ ScanFail(i)
  \/ StoreData(i)
  \/ StoreTimestamp(i)
  \/ MarkCached(i)
  \/ ReadAge(i)
  \/ RespondSuccess(i)
  \/ RespondError(i)
  \/ Return(i)

SeqNext ==
  \/ Tick
  \/ \E i \in Procs : SeqStep(i)

SeqSpec == Init /\ [][SeqNext]_vars

\* ---------------------------------------------------------------------------
\* Properties
\* ---------------------------------------------------------------------------

\* The invocation in slot i has taken its hit/miss decision and not yet acted on it.
Decided(i) == pc[i] \in {"L43", "L54"}

\* C1 -- Freshness: an invocation at t2 that finds a snapshot stored with capture
\* timestamp t1 < t2 (any number of records, zero included) and no store in
\* between is served from the cache iff t2 - t1 < CACHE_TTL.
C1_Freshness ==
  \A i \in Procs :
    (Decided(i) /\ ~cache.data.none /\ cache.timestamp < current_time[i])
      => ((pc[i] = "L43") <=> (current_time[i] - cache.timestamp < CACHE_TTL))

\* C2 -- the reported outcome is the decision taken: cached is false and
\* X-Cache-Status is MISS for an invocation that called the data source, cached
\* is true and X-Cache-Status is HIT for one that did not.
C2_ReportedOutcome ==
  \A i \in Procs :
    response[i].statusCode = 200
      => /\ response[i].body.cached = (scans[i] = 0)
         /\ response[i].X_Cache_Status = (IF scans[i] = 0 THEN "HIT" ELSE "MISS")

\* The retrieval of the invocation in slot i has failed.
Failed(i) == pc[i] = "L133" \/ response[i].statusCode = 500

\* C3 -- No mutation on failure: when table.scan raises, cache['data'] and
\* cache['timestamp'] are after the invocation what they were before it, and the
\* invocation wrote nothing.
C3_NoMutationOnFailure ==
  \A i \in Procs : Failed(i) => (cache = cacheAtStart /\ stores[i] = 0)

\* C3 witness: a failed invocation has returned while the cache holds an
\* expired snapshot.
C3_Witness ==
  \E i \in Procs :
    /\ response[i].statusCode = 500
    /\ Truthy(cache.data)
    /\ current_time[i] - cache.timestamp >= CACHE_TTL

\* C4 -- Atomic replace: in every state the pair (cache['data'],
\* cache['timestamp']) is the initial empty pair or a pair of records and
\* capture timestamp that one invocation submitted together.
C4_AtomicReplace ==
  cache = CacheInit \/ <<cache.data, cache.timestamp>> \in submitted

\* C5 -- Idempotent hit: a hit response that follows another hit response with
\* no miss in between carries the same records and count, and its
\* cache_age_seconds is not smaller.
C5_IdempotentHit ==
  [][\A i \in Procs :
       (pc[i] = "L122" /\ pc'[i] = "done" /\ scans[i] = 0 /\ lastHit.present)
         => /\ response'[i].body.data = lastHit.data
            /\ response'[i].body.count = lastHit.count
            /\ response'[i].body.cache_age_seconds >= lastHit.cache_age_seconds]_vars

\* C5 witness: a second hit in a row is about to be answered, later than the first.
C5_Witness ==
  \E i \in Procs :
    /\ pc[i] = "L122"
    /\ scans[i] = 0
    /\ lastHit.present
    /\ cache_age[i] > lastHit.cache_age_seconds

\* C6 -- Error response: an invocation whose retrieval failed returns status 500
\* with a body of exactly the fixed error text and the request identifier, and
\* never status 200; the exception's text is not in the body.
C6_ErrorResponse ==
  \A i \in Procs :
    error_message[i] # ""
      => /\ pc[i] \in {"L133", "done"}
         /\ response[i].statusCode # 200
         /\ pc[i] = "done"
              => /\ response[i].statusCode = 500
                 /\ response[i].body.keys = {"error", "request_id"}
                 /\ response[i].body.error = "Internal Server Error"
                 /\ response[i].body.error # error_message[i]
                 /\ response[i].body.request_id = request_id[i]

\* C6 witness: a failed invocation has returned while a snapshot is in the cache.
C6_Witness ==
  \E i \in Procs :
    /\ pc[i] = "done"
    /\ error_message[i] # ""
    /\ Truthy(cache.data)

\* The invocation in slot i found a stored snapshot whose age is CACHE_TTL or more.
FoundExpired(i) ==
  /\ pc[i] \notin {"idle", "L33", "L36", "L36b"}
  /\ ~cacheAtStart.data.none
  /\ current_time[i] - cacheAtStart.timestamp >= CACHE_TTL

\* An invocation that found an expired snapshot misses, calls the data source
\* once, and after a successful call cache and response hold the new records.
C7_Revalidates ==
  \A i \in Procs :
    FoundExpired(i)
      => /\ pc[i] # "L43"
         /\ pc[i] \in {"L66", "L67", "L102", "L107", "L122", "L133", "done"} => scans[i] = 1
         /\ pc[i] \in {"L102", "L107", "L122"} => cache.data = items[i]
         /\ response[i].statusCode = 200
              => /\ cache.data = items[i]
                 /\ response[i].body.data = items[i].list

\* A step that changes the cache is line 66 or 67 of an invocation that called
\* the data source.
C7_OnlyMissStores ==
  cache' # cache
    => \E i \in Procs : pc[i] \in {"L66", "L67"} /\ pc'[i] # pc[i] /\ scans[i] = 1

\* C7 -- Lazy revalidation: an invocation that finds the snapshot expired calls
\* the data source, and after a successful call the cache holds the records just
\* retrieved and the response carries them; no step other than the stores of an
\* invocation on a miss changes the cache.
C7_LazyRevalidation == []C7_Revalidates /\ [][C7_OnlyMissStores]_vars

\* C7 witness: an invocation that found an expired snapshot has answered with
\* newly retrieved records that differ from the expired ones.
C7_Witness ==
  \E i \in Procs :
    /\ FoundExpired(i)
    /\ Truthy(cacheAtStart.data)
    /\ response[i].statusCode = 200
    /\ cache.data # cacheAtStart.data

\* C8 -- Cold start: the cache starts as (None, 0); the first invocation never
\* takes the hit branch and calls the data source, whatever the clock reads; no
\* response is built from None.
C8_ColdStart ==
  /\ started = 0 => cache = CacheInit
  /\ started = 1 =>
       \A i \in Procs :
         /\ pc[i] # "L43"
         /\ pc[i] \in {"L66", "L67", "L102", "L107", "L122", "L133", "done"} => scans[i] = 1
  /\ \A i \in Procs : pc[i] \in {"L102", "L107", "L122"} => ~items[i].none
  /\ \A i \in Procs : response[i].statusCode = 200 => ~items[i].none

\* C8 witness: the first invocation is about to call the data source at a clock
\* reading below CACHE_TTL.
C8_Witness ==
  /\ started = 1
  /\ \E i \in Procs : pc[i] = "L54" /\ current_time[i] - cache.timestamp < CACHE_TTL

\* The invocation in slot i was served from the cache.
ServedFromCache(i) ==
  /\ scans[i] = 0
  /\ pc[i] \in {"L102", "L107", "L122"} \/ response[i].statusCode = 200

\* C9 -- A hit is a pure read: an invocation served from the cache returns the
\* stored records and leaves cache['data'] and cache['timestamp'] as they were.
C9_HitIsPureRead ==
  \A i \in Procs :
    ServedFromCache(i)
      => /\ cache = cacheAtStart
         /\ stores[i] = 0
         /\ items[i] = cacheAtStart.data

\* C9 witness: a hit has been answered later than the capture of its snapshot.
C9_Witness ==
  \E i \in Procs :
    /\ scans[i] = 0
    /\ response[i].statusCode = 200
    /\ cache.timestamp < current_time[i]

\* C10 -- Last writer wins: while the invocation whose cache['data'] = items ran
\* last still holds its records, the cache's records are that invocation's.
C10_LastWriterWins ==
  lastDataWriter # 0 => cache.data = items[lastDataWriter]

\* C10 witness: the only two invocations both missed on the empty cache, both
\* called the data source and both finished storing; the one that looked first
\* stored last and its records, different from the other's, are in the cache.
C10_Witness ==
  /\ started = 2
  /\ stores[1] = 2 /\ stores[2] = 2
  /\ items[1] # items[2]
  /\ current_time[1] < current_time[2]
  /\ lastDataWriter = 1
  /\ cache.data = items[1]

\* C11 -- Capture timestamp: the timestamp stored with a fetched snapshot is the
\* clock reading at which its retrieval succeeded, so the snapshot's age does
\* not include the time the retrieval took.
C11_CaptureIsFetchTime ==
  [][\A i \in Procs :
       (pc[i] = "L67" /\ pc'[i] = "L102") => cache'.timestamp = fetchedAt[i]]_vars

\* The capture timestamp of the snapshot whose records the invocation in slot i
\* returns: its own current_time after a miss, the one submitted with the
\* records it read after a hit.
CaptureOfItems(i) == IF scans[i] = 1 THEN current_time[i] ELSE snapTs[i]

\* C12 -- Reported age belongs to the returned data: cache_age_seconds of a 200
\* response is the time elapsed since the capture timestamp of the snapshot
\* whose records are in its data.
C12_AgeOfReturnedData ==
  [][\A i \in Procs :
       (pc[i] = "L107" /\ pc'[i] = "L122") => cache_age'[i] = now - CaptureOfItems(i)]_vars

\* C13 -- No retries: an invocation calls the data source at most once, not
\* before it missed and not at all on the hit branch; it stores only after its
\* one call; a failed call leads straight to the 500 response, which carries no
\* records of the snapshot still in the cache.
C13_NoRetries ==
  \A i \in Procs :
    /\ scans[i] <= 1
    /\ pc[i] \in {"L33", "L36", "L36b", "L43", "L54"} => scans[i] = 0
    /\ pc[i] \in {"L66", "L67", "L133"} => scans[i] = 1
    /\ stores[i] > 0 => scans[i] = 1
    /\ error_message[i] # ""
         => /\ pc[i] \in {"L133", "done"}
            /\ items[i].none
            /\ pc[i] = "done"
                 => /\ response[i].statusCode = 500
                    /\ "data" \notin response[i].body.keys
                    /\ response[i].body.data = <<>>

\* C13 witness: an invocation whose single call failed has answered 500 while
\* an expired snapshot with records is still in the cache.
C13_Witness ==
  \E i \in Procs :
    /\ response[i].statusCode = 500
    /\ scans[i] = 1
    /\ Truthy(cache.data)
    /\ current_time[i] - cache.timestamp >= CACHE_TTL
    /\ "data" \notin response[i].body.keys

\* The invocation in slot i is between its entry and its return statement.
Running(i) == pc[i] \notin {"idle", "done"}

\* A response exists only in the terminal state and is a 200 or a 500; a 200
\* after a miss comes after both cache writes; a running invocation always has
\* a step it can take, whatever the others do.
C14_OneTerminalState ==
  \A i \in Procs :
    /\ pc[i] = "done" <=> response[i].statusCode \in {200, 500}
    /\ pc[i] # "done" => response[i] = NoResponse
    /\ (response[i].statusCode = 200 /\ scans[i] = 1) => stores[i] = 2
    /\ response[i].statusCode = 500 => error_message[i] # ""
    /\ Running(i) => ENABLED Proceed(i)

\* C14 -- Every invocation completes: provided the data-source call returns or
\* fails, each invocation, alone or interleaved, reaches exactly one terminal
\* state, status 200 or status 500; 200 after a miss only after the cache
\* update; no invocation waits on another.
C14_Completes ==
  /\ []C14_OneTerminalState
  /\ \A i \in Procs : Running(i) ~> (pc[i] = "done")

\* C14 witness: two invocations have both reached their terminal state, one
\* with status 200 after a miss and one with status 500; they overlapped, since
\* the second missed at a clock reading at which the first one's snapshot is valid.
C14_Witness ==
  /\ pc[1] = "done" /\ pc[2] = "done"
  /\ response[1].statusCode = 200 /\ scans[1] = 1
  /\ response[2].statusCode = 500
  /\ Truthy(cache.data)
  /\ cache.timestamp = current_time[1]
  /\ current_time[2] >= cache.timestamp
  /\ current_time[2] - cache.timestamp < CACHE_TTL

\* The step of slot i that runs line 67, cache['timestamp'] = current_time.
StoresTimestamp(i) == pc[i] = "L67" /\ pc'[i] = "L102"

\* C15 as stated -- The capture timestamp held in the cache never decreases:
\* across any sequence or interleaving of invocations each store leaves
\* cache['timestamp'] greater than or equal to its previous value.
C15_NeverDecreases == [][cache'.timestamp >= cache.timestamp]_vars

\* C15 amended -- cache['timestamp'] changes only at line 67, which sets it to
\* the storing invocation's current_time of line 33; a store by an invocation
\* that no other invocation's line 67 overtook between its line 33 and its own
\* line 67 never lowers it. A store by an overtaken invocation may lower it.
C15_DecreasesOnlyWhenOvertaken ==
  [][/\ cache'.timestamp # cache.timestamp => \E i \in Procs : StoresTimestamp(i)
     /\ \A i \in Procs :
          StoresTimestamp(i)
            => /\ cache'.timestamp = current_time[i]
               /\ ~overtaken[i] => cache'.timestamp >= cache.timestamp]_vars

\* C15 witness: an invocation that was not overtaken has run line 67 and the
\* cache holds its timestamp, later than the positive timestamp of a snapshot
\* submitted before.
C15_Witness ==
  \E i \in Procs :
    /\ pc[i] = "L102"
    /\ stores[i] = 2
    /\ ~overtaken[i]
    /\ cache.timestamp = current_time[i]
    /\ \E s \in submitted : 0 < s[2] /\ s[2] < cache.timestamp

\* C16 -- Staleness bound: the records a cache hit returns (line 43) were
\* retrieved by a scan started less than CACHE_TTL before the clock reading
\* of line 33 against which the hit's validity check of line 36 was made.
C16_StalenessBound ==
  [][\A i \in Procs :
       (pc[i] = "L43" /\ pc'[i] = "L102")
         => current_time[i] - dataOrigin.start < CACHE_TTL]_vars

====
